---- MODULE Spec2Model ----
(***************************************************************************)
(* Model of uber.py: a command-line helper that loads a tool configuration *)
(* ('uber-config') and a project configuration ('uber'), and for its `run` *)
(* subcommand creates virtual environments, installs dependencies and      *)
(* launches the project inside the main environment.                       *)
(*                                                                         *)
(* One invocation of main() is a sequence of steps over a record `exec`    *)
(* (the position in run_command, the external operations performed so far, *)
(* the messages printed, and the disk the child processes act on).         *)
(* `twin` is a second invocation on the same inputs whose tool             *)
(* configuration may carry other ignore flags; it is advanced by the same  *)
(* step operators with the same child-process outcomes.                    *)
(***************************************************************************)
EXTENDS Naturals, Sequences, FiniteSets

VARIABLES command, uberFile, twinFile, projectFile, paired, runNo, exec, twin

vars == <<command, uberFile, twinFile, projectFile, paired, runNo, exec, twin>>

(* ----------------------------- bounds ---------------------------------- *)

MaxVenvs == 2
MaxDeps == 2
MaxRuns == 2

(* ----------------------------- inputs ---------------------------------- *)

ReservedVenv == "test-venv"

\* Names of ordinary environments, in the order in which a configuration of
\* the model introduces them.
PlainVenvs == <<"env-a", "env-b", "env-c">>

\* Package names, in the order in which a configuration declares them, and
\* the version each entry pins ("" when the entry has no version).
Packages == <<"requests", "flask", "numpy">>

PinnedVersion(package) == IF package = "requests" THEN "2.31.0" ELSE ""

Range(s) == {s[k] : k \in 1..Len(s)}

SeqsUpTo(S, n) == UNION {[1..k -> S] : k \in 0..n}

RECURSIVE SelectPlain(_)
SelectPlain(names) ==
    IF names = <<>> THEN <<>>
    ELSE IF Head(names) = ReservedVenv THEN SelectPlain(Tail(names))
    ELSE <<Head(names)>> \o SelectPlain(Tail(names))

VenvNames == Range(PlainVenvs) \cup {ReservedVenv}

\* venv-configs: an insertion-ordered mapping name -> {main: bool}.  Keys are
\* distinct; ordinary names are taken from PlainVenvs in order; no entry, one
\* entry or every entry is flagged main.
VenvConfigs ==
    {v \in SeqsUpTo([name : VenvNames, main : BOOLEAN], MaxVenvs) :
        /\ \A a, b \in 1..Len(v) : a # b => v[a].name # v[b].name
        /\ Cardinality({k \in 1..Len(v) : v[k].main}) \in {0, 1, Len(v)}
        /\ LET plain == SelectPlain([k \in 1..Len(v) |-> v[k].name])
           IN  plain = SubSeq(PlainVenvs, 1, Len(plain))}

\* The `venv` field of a dependency entry: a name, or "" when the field is
\* missing or empty.
VenvFields == {"env-a", "env-b", ReservedVenv, ""}

\* dependencies: an insertion-ordered mapping package -> {venv, version}.
DependencyConfigs ==
    {[k \in 1..n |-> [package |-> Packages[k], venv |-> f[k],
                      version |-> PinnedVersion(Packages[k])]] :
        n \in 0..MaxDeps, f \in [1..MaxDeps -> VenvFields]}

\* project-info: each field is "" when its key is missing.
NoInfo == [name |-> "", source |-> "", version |-> ""]

ProjectInfos == {NoInfo, [name |-> "demo", source |-> "app.py", version |-> "2.0"]}

\* What the 'uber' file holds: missing, not JSON, the empty object {} or an
\* object with at least one key.  A project-info section comes with every
\* venv-configs and with the dependency lists that name no environment.
ProjectFiles ==
    {[status |-> s, empty |-> FALSE, info |-> NoInfo, venvs |-> <<>>, deps |-> <<>>] :
        s \in {"missing", "invalid"}}
    \cup {[status |-> "ok", empty |-> TRUE, info |-> NoInfo, venvs |-> <<>>, deps |-> <<>>]}
    \cup {p \in [status : {"ok"}, empty : {FALSE}, info : ProjectInfos,
                  venvs : VenvConfigs, deps : DependencyConfigs] :
             p.info # NoInfo => \A k \in 1..Len(p.deps) : p.deps[k].venv = ""}

NoIgnore == [warnings |-> FALSE, errors |-> FALSE, info |-> FALSE]

\* What the 'uber-config' file holds.  run_command reads ignore.warnings into
\* a local it never uses, so the first invocation's value is fixed and only
\* the twin's varies.
UberFiles ==
    {[status |-> s, ignore |-> NoIgnore] : s \in {"missing", "invalid"}}
    \cup [status : {"ok"}, ignore : [warnings : {FALSE}, errors : BOOLEAN, info : BOOLEAN]]

Commands == {"info", "run", "help"}

(* ------------------------- configuration access ------------------------ *)

\* read_uber_config / read_project_config return None unless the file exists
\* and parses.
IsNone(file) == file.status # "ok"

\* Python truth value of a loaded configuration: None and {} are false.
Truthy(config) == ~IsNone(config) /\ ~config.empty

\* dict.get(key, default) on project-info.
GetOr(value, default) == IF value = "" THEN default ELSE value

project_source(project) == GetOr(project.info.source, "main.py")

ignore_errors(uber) == uber.ignore.errors

ignore_info(uber) == uber.ignore.info

DeclaredVenvs(project) == {project.venvs[k].name : k \in 1..Len(project.venvs)}

\* The first environment whose `main` flag is true, "" when there is none.
main_venv(project) ==
    LET flagged == {k \in 1..Len(project.venvs) : project.venvs[k].main}
    IN  IF flagged = {} THEN ""
        ELSE project.venvs[CHOOSE k \in flagged : \A m \in flagged : k <= m].name

\* Variant: only the emptiness of the field is tested.
EligibleAnyName(project, dep) == dep.venv # ""

\* `if venv_name and venv_name in venv_configs`
Eligible(project, dep) == dep.venv # "" /\ dep.venv \in DeclaredVenvs(project)

\* The requirement handed to pip install.
InstallSpec(dep) ==
    IF dep.version # "" THEN <<dep.package, "==", dep.version>> ELSE <<dep.package>>

(* ------------------------------ run state ------------------------------ *)

Op(kind, item, venv, arg, res) ==
    [op |-> kind, item |-> item, venv |-> venv, arg |-> arg, res |-> res]

Msg(kind, item) == [kind |-> kind, item |-> item]

\* print(...) guarded by `if not <flag>`.
Say(s, suppressed, kind, item) ==
    IF suppressed THEN s.msgs ELSE Append(s.msgs, Msg(kind, item))

Fresh(envs, installed) ==
    [pc |-> "idle", i |-> 0, j |-> 0, ops |-> <<>>, msgs |-> <<>>,
     envs |-> envs, installed |-> installed,
     startEnvs |-> envs, startInstalled |-> installed]

\* Position after the dependency loop has dealt with entries 1..j-1.
ToDeps(s, project, j) ==
    IF j <= Len(project.deps) THEN [s EXCEPT !.pc = "deps", !.j = j]
    ELSE [s EXCEPT !.pc = "launch", !.j = j]

\* Position after the creation loop has dealt with entries 1..i-1.
ToCreate(s, project, i) ==
    IF i <= Len(project.venvs) THEN [s EXCEPT !.pc = "create", !.i = i]
    ELSE ToDeps([s EXCEPT !.i = i], project, 1)

(* ------------------------------- steps --------------------------------- *)

\* main(): parse the arguments, load both configurations, dispatch.
LoaderMsgs(uber, project) ==
    (IF uber.status = "missing" THEN <<Msg("Error1", "uber-config")>>
     ELSE IF uber.status = "invalid" THEN <<Msg("Error2", "uber-config")>>
     ELSE <<>>)
    \o (IF project.status = "missing" THEN <<Msg("Error7", "uber")>>
        ELSE IF project.status = "invalid" THEN <<Msg("Error8", "uber")>>
        ELSE <<>>)

MainStep(s, uber, project, cmd) ==
    [s EXCEPT !.pc = cmd, !.msgs = s.msgs \o LoaderMsgs(uber, project)]

\* parser.print_help()
HelpStep(s) == [s EXCEPT !.pc = "done", !.msgs = Append(s.msgs, Msg("Usage", ""))]

\* info_command
InfoStep(s, project) ==
    IF ~Truthy(project) THEN [s EXCEPT !.pc = "done"]
    ELSE [s EXCEPT !.pc = "done",
                   !.msgs = s.msgs
                       \o <<Msg("ProjectName", GetOr(project.info.name, "unknown_project")),
                            Msg("ProjectSource", project_source(project)),
                            Msg("Version", GetOr(project.info.version, "1.0"))>>
                       \o (IF main_venv(project) # ""
                           THEN <<Msg("MainVenv", main_venv(project))>> ELSE <<>>)]

\* run_command, up to the first loop: an absent tool configuration has no
\* .get and the call raises.
RunEntryStep(s, uber, project) ==
    IF ~Truthy(project) THEN [s EXCEPT !.pc = "done"]
    ELSE IF IsNone(uber) THEN [s EXCEPT !.pc = "fault"]
    ELSE ToCreate(s, project, 1)

\* Variant: the reserved name is reported and then created like any other.
SkipTestVenvStepCreates(s, uber, project) ==
    LET t == [s EXCEPT !.msgs = Say(s, ignore_info(uber), "InfoIgnoring", ReservedVenv)]
    IN  ToCreate([t EXCEPT !.ops = Append(s.ops, Op("create", ReservedVenv, ReservedVenv,
                                                     <<>>, "ok")),
                           !.envs = s.envs \cup {ReservedVenv}],
                 project, s.i + 1)

\* Creation loop, reserved name.
SkipTestVenvStep(s, uber, project) ==
    ToCreate([s EXCEPT !.msgs = Say(s, ignore_info(uber), "InfoIgnoring", ReservedVenv)],
             project, s.i + 1)

\* Variant: the `return` of the failure handler sits inside `if not
\* ignore_errors`, so a suppressed error lets the loop go on.
CreateVenvStepReturnInsideIf(s, uber, project, ok) ==
    LET name == project.venvs[s.i].name
        t == [s EXCEPT !.msgs = Append(s.msgs, Msg("Creating", name))]
    IN  IF ok
        THEN ToCreate([t EXCEPT !.ops = Append(s.ops, Op("create", name, name, <<>>, "ok")),
                                !.msgs = Append(t.msgs, Msg("Created", name)),
                                !.envs = s.envs \cup {name}],
                      project, s.i + 1)
        ELSE IF ignore_errors(uber)
        THEN ToCreate([t EXCEPT !.ops = Append(s.ops, Op("create", name, name, <<>>, "fail"))],
                      project, s.i + 1)
        ELSE [t EXCEPT !.ops = Append(s.ops, Op("create", name, name, <<>>, "fail")),
                       !.msgs = Append(t.msgs, Msg("Error3", name)),
                       !.pc = "done"]

\* Creation loop, python -m venv <name>.
CreateVenvStep(s, uber, project, ok) ==
    LET name == project.venvs[s.i].name
        t == [s EXCEPT !.msgs = Append(s.msgs, Msg("Creating", name))]
    IN  IF ok
        THEN ToCreate([t EXCEPT !.ops = Append(s.ops, Op("create", name, name, <<>>, "ok")),
                                !.msgs = Append(t.msgs, Msg("Created", name)),
                                !.envs = s.envs \cup {name}],
                      project, s.i + 1)
        ELSE [t EXCEPT !.ops = Append(s.ops, Op("create", name, name, <<>>, "fail")),
                       !.msgs = Say(t, ignore_errors(uber), "Error3", name),
                       !.pc = "done"]

\* Dependency loop, entry whose venv is missing, empty or not declared.
SkipDependencyStep(s, project) == ToDeps(s, project, s.j + 1)

\* Variant: a package found present is installed all the same.
ProbeStepAlwaysInstall(s, uber, project) ==
    LET dep == project.deps[s.j]
    IN  IF dep.venv \notin s.envs
        THEN [s EXCEPT !.ops = Append(s.ops, Op("probe", dep.package, dep.venv, <<>>, "noexec")),
                       !.pc = "fault"]
        ELSE IF <<dep.package, dep.venv>> \in s.installed
        THEN [s EXCEPT !.ops = Append(s.ops, Op("probe", dep.package, dep.venv, <<>>, "ok")),
                       !.msgs = Say(s, ignore_info(uber), "InfoInstalled", dep.package),
                       !.pc = "install"]
        ELSE [s EXCEPT !.ops = Append(s.ops, Op("probe", dep.package, dep.venv, <<>>, "fail")),
                       !.pc = "install"]

\* Variant: a package found present ends the run (`return` for `continue`).
ProbeStepReturns(s, uber, project) ==
    LET dep == project.deps[s.j]
    IN  IF dep.venv \notin s.envs
        THEN [s EXCEPT !.ops = Append(s.ops, Op("probe", dep.package, dep.venv, <<>>, "noexec")),
                       !.pc = "fault"]
        ELSE IF <<dep.package, dep.venv>> \in s.installed
        THEN [s EXCEPT !.ops = Append(s.ops, Op("probe", dep.package, dep.venv, <<>>, "ok")),
                       !.msgs = Say(s, ignore_info(uber), "InfoInstalled", dep.package),
                       !.pc = "done"]
        ELSE [s EXCEPT !.ops = Append(s.ops, Op("probe", dep.package, dep.venv, <<>>, "fail")),
                       !.pc = "install"]

\* Variant: a package found present ends the dependency loop (`break` for
\* `continue`).
ProbeStepBreaks(s, uber, project) ==
    LET dep == project.deps[s.j]
    IN  IF dep.venv \notin s.envs
        THEN [s EXCEPT !.ops = Append(s.ops, Op("probe", dep.package, dep.venv, <<>>, "noexec")),
                       !.pc = "fault"]
        ELSE IF <<dep.package, dep.venv>> \in s.installed
        THEN [s EXCEPT !.ops = Append(s.ops, Op("probe", dep.package, dep.venv, <<>>, "ok")),
                       !.msgs = Say(s, ignore_info(uber), "InfoInstalled", dep.package),
                       !.pc = "launch"]
        ELSE [s EXCEPT !.ops = Append(s.ops, Op("probe", dep.package, dep.venv, <<>>, "fail")),
                       !.pc = "install"]

\* Dependency loop, pip show <package> in the target environment.  The pip
\* executable exists when the environment is on disk; otherwise starting
\* the child process raises FileNotFoundError, which nothing catches.
ProbeStep(s, uber, project) ==
    LET dep == project.deps[s.j]
    IN  IF dep.venv \notin s.envs
        THEN [s EXCEPT !.ops = Append(s.ops, Op("probe", dep.package, dep.venv, <<>>, "noexec")),
                       !.pc = "fault"]
        ELSE IF <<dep.package, dep.venv>> \in s.installed
        THEN ToDeps([s EXCEPT !.ops = Append(s.ops, Op("probe", dep.package, dep.venv, <<>>, "ok")),
                              !.msgs = Say(s, ignore_info(uber), "InfoInstalled", dep.package)],
                    project, s.j + 1)
        ELSE [s EXCEPT !.ops = Append(s.ops, Op("probe", dep.package, dep.venv, <<>>, "fail")),
                       !.pc = "install"]

\* Variant: a failed install is reported and the loop goes on.
InstallStepNoAbort(s, uber, project, ok) ==
    LET dep == project.deps[s.j]
        t == [s EXCEPT !.msgs = Append(s.msgs, Msg("Installing", dep.package))]
    IN  IF ok
        THEN ToDeps([t EXCEPT !.ops = Append(s.ops, Op("install", dep.package, dep.venv,
                                                       InstallSpec(dep), "ok")),
                              !.msgs = Append(t.msgs, Msg("Installed", dep.package)),
                              !.installed = s.installed \cup {<<dep.package, dep.venv>>}],
                    project, s.j + 1)
        ELSE ToDeps([t EXCEPT !.ops = Append(s.ops, Op("install", dep.package, dep.venv,
                                                       InstallSpec(dep), "fail")),
                              !.msgs = Say(t, ignore_errors(uber), "Error4", dep.package)],
                    project, s.j + 1)

\* Dependency loop, pip install.
InstallStep(s, uber, project, ok) ==
    LET dep == project.deps[s.j]
        t == [s EXCEPT !.msgs = Append(s.msgs, Msg("Installing", dep.package))]
    IN  IF ok
        THEN ToDeps([t EXCEPT !.ops = Append(s.ops, Op("install", dep.package, dep.venv,
                                                       InstallSpec(dep), "ok")),
                              !.msgs = Append(t.msgs, Msg("Installed", dep.package)),
                              !.installed = s.installed \cup {<<dep.package, dep.venv>>}],
                    project, s.j + 1)
        ELSE [t EXCEPT !.ops = Append(s.ops, Op("install", dep.package, dep.venv,
                                                InstallSpec(dep), "fail")),
                       !.msgs = Say(t, ignore_errors(uber), "Error4", dep.package),
                       !.pc = "done"]

\* Launch: source <venv>/bin/activate && python <source>.  The shell fails
\* when the activate script is not on disk, else as the project does.
LaunchStep(s, uber, project, ok) ==
    LET venv == main_venv(project)
        res == IF venv \in s.envs /\ ok THEN "ok" ELSE "fail"
    IN  [s EXCEPT !.ops = Append(s.ops, Op("launch", project_source(project), venv, <<>>, res)),
                  !.msgs = IF res = "ok" THEN s.msgs
                           ELSE Say(s, ignore_errors(uber), "Error5", venv),
                  !.pc = "done"]

\* Launch without an environment flagged main.
NoMainStep(s, uber) ==
    [s EXCEPT !.msgs = Say(s, ignore_errors(uber), "Error6", ""), !.pc = "done"]

\* The next invocation starts on the disk the previous one left.
RestartStep(s) == Fresh(s.envs, s.installed)

\* One step of an invocation, by its position.
Advance(s, uber, project, cmd, ok) ==
    CASE s.pc = "idle" -> MainStep(s, uber, project, cmd)
      [] s.pc = "help" -> HelpStep(s)
      [] s.pc = "info" -> InfoStep(s, project)
      [] s.pc = "run" -> RunEntryStep(s, uber, project)
      [] s.pc = "create" ->
            IF project.venvs[s.i].name = ReservedVenv
            THEN SkipTestVenvStep(s, uber, project)
            ELSE CreateVenvStep(s, uber, project, ok)
      [] s.pc = "deps" ->
            IF Eligible(project, project.deps[s.j])
            THEN ProbeStep(s, uber, project)
            ELSE SkipDependencyStep(s, project)
      [] s.pc = "install" -> InstallStep(s, uber, project, ok)
      [] s.pc = "launch" ->
            IF main_venv(project) # "" THEN LaunchStep(s, uber, project, ok)
            ELSE NoMainStep(s, uber)
      [] OTHER -> RestartStep(s)

(* --------------------------- initial states ---------------------------- *)

\* The disk before the first invocation holds no environment of the project,
\* except that a declared reserved environment, which the tool never
\* creates, may have been made by the user.
InitialDisks(project) == SUBSET (DeclaredVenvs(project) \cap {ReservedVenv})

TwinFiles(uber) ==
    IF IsNone(uber) THEN {uber}
    ELSE [status : {"ok"}, ignore : [warnings : BOOLEAN, errors : BOOLEAN, info : BOOLEAN]]

InitCommon ==
    /\ command \in Commands
    /\ uberFile \in UberFiles
    /\ projectFile \in ProjectFiles
    /\ runNo = 1
    /\ \E d \in InitialDisks(projectFile) : exec = Fresh(d, {})
    /\ twin = exec

Init ==
    /\ InitCommon
    /\ paired = FALSE
    /\ twinFile = uberFile

InitPair ==
    /\ InitCommon
    /\ paired = TRUE
    /\ command = "run"
    /\ Truthy(projectFile)
    /\ ~IsNone(uberFile)
    /\ twinFile \in TwinFiles(uberFile)

(* ------------------------------ actions -------------------------------- *)

\* The twin invocation takes its own step with the same outcome.
Twin(ok) ==
    twin' = IF paired THEN Advance(twin, twinFile, projectFile, command, ok) ELSE twin

Frame == UNCHANGED <<command, uberFile, twinFile, projectFile, paired, runNo>>

Main ==
    /\ exec.pc = "idle"
    /\ exec' = MainStep(exec, uberFile, projectFile, command)
    /\ Twin(TRUE)
    /\ Frame

PrintHelp ==
    /\ exec.pc = "help"
    /\ exec' = HelpStep(exec)
    /\ Twin(TRUE)
    /\ Frame

InfoCommand ==
    /\ exec.pc = "info"
    /\ exec' = InfoStep(exec, projectFile)
    /\ Twin(TRUE)
    /\ Frame

RunEntry ==
    /\ exec.pc = "run"
    /\ exec' = RunEntryStep(exec, uberFile, projectFile)
    /\ Twin(TRUE)
    /\ Frame

SkipTestVenv ==
    /\ exec.pc = "create"
    /\ projectFile.venvs[exec.i].name = ReservedVenv
    /\ exec' = SkipTestVenvStep(exec, uberFile, projectFile)
    /\ Twin(TRUE)
    /\ Frame

CreateVenv ==
    /\ exec.pc = "create"
    /\ projectFile.venvs[exec.i].name # ReservedVenv
    /\ \E ok \in BOOLEAN :
          /\ exec' = CreateVenvStep(exec, uberFile, projectFile, ok)
          /\ Twin(ok)
    /\ Frame

SkipDependency ==
    /\ exec.pc = "deps"
    /\ ~Eligible(projectFile, projectFile.deps[exec.j])
    /\ exec' = SkipDependencyStep(exec, projectFile)
    /\ Twin(TRUE)
    /\ Frame

ProbeDependency ==
    /\ exec.pc = "deps"
    /\ Eligible(projectFile, projectFile.deps[exec.j])
    /\ exec' = ProbeStep(exec, uberFile, projectFile)
    /\ Twin(TRUE)
    /\ Frame

InstallDependency ==
    /\ exec.pc = "install"
    /\ \E ok \in BOOLEAN :
          /\ exec' = InstallStep(exec, uberFile, projectFile, ok)
          /\ Twin(ok)
    /\ Frame

LaunchProject ==
    /\ exec.pc = "launch"
    /\ main_venv(projectFile) # ""
    /\ \E ok \in BOOLEAN :
          /\ exec' = LaunchStep(exec, uberFile, projectFile, ok)
          /\ Twin(ok)
    /\ Frame

NoMainVenv ==
    /\ exec.pc = "launch"
    /\ main_venv(projectFile) = ""
    /\ exec' = NoMainStep(exec, uberFile)
    /\ Twin(TRUE)
    /\ Frame

\* The user invokes the tool again with the same files and command.
Restart ==
    /\ exec.pc \in {"done", "fault"}
    /\ runNo < MaxRuns
    /\ runNo' = runNo + 1
    /\ exec' = RestartStep(exec)
    /\ Twin(TRUE)
    /\ UNCHANGED <<command, uberFile, twinFile, projectFile, paired>>

Next ==
    \/ Main
    \/ PrintHelp
    \/ InfoCommand
    \/ RunEntry
    \/ SkipTestVenv
    \/ CreateVenv
    \/ SkipDependency
    \/ ProbeDependency
    \/ InstallDependency
    \/ LaunchProject
    \/ NoMainVenv
    \/ Restart

Spec == Init /\ [][Next]_vars

\* Two `run` invocations side by side.
NextPair ==
    \/ Main
    \/ RunEntry
    \/ SkipTestVenv
    \/ CreateVenv
    \/ SkipDependency
    \/ ProbeDependency
    \/ InstallDependency
    \/ LaunchProject
    \/ NoMainVenv

SpecPair == InitPair /\ [][NextPair]_vars

TypeOK ==
    /\ exec.pc \in {"idle", "help", "info", "run", "create", "deps", "install",
                    "launch", "done", "fault"}
    /\ runNo \in 1..MaxRuns

(* ------------------------------ properties ----------------------------- *)

OpIndices(s, kinds) == {k \in 1..Len(s.ops) : s.ops[k].op \in kinds}

\* A creation or an install of this invocation has failed.
Failed(s) == \E k \in OpIndices(s, {"create", "install"}) : s.ops[k].res = "fail"

HasMsg(s, kind, item) == \E k \in 1..Len(s.msgs) : s.msgs[k] = Msg(kind, item)

\* The invocation is a `run` that got past the entry of run_command.
InPipeline(s) ==
    /\ command = "run"
    /\ s.pc \in {"create", "deps", "install", "launch", "done", "fault"}
    /\ Truthy(projectFile)
    /\ ~IsNone(uberFile)

PlainDeclared == SelectPlain([k \in 1..Len(projectFile.venvs) |-> projectFile.venvs[k].name])

DepIndex(package) == CHOOSE d \in 1..Len(projectFile.deps) : projectFile.deps[d].package = package

\* C1: once an environment creation or a dependency install has failed, the
\* run performs no further external operation: the failed operation is the
\* last one of the run and the run has ended.
FirstFailureAborts ==
    \A k \in OpIndices(exec, {"create", "install"}) :
        exec.ops[k].res = "fail" => k = Len(exec.ops) /\ exec.pc = "done"

\* C1 witness: an install failed while a later dependency and a main
\* environment were still to come.
FirstFailureAbortsWitness ==
    /\ InPipeline(exec)
    /\ exec.pc = "done"
    /\ Len(exec.ops) > 0
    /\ exec.ops[Len(exec.ops)].op = "install"
    /\ exec.ops[Len(exec.ops)].res = "fail"
    /\ exec.j < Len(projectFile.deps)
    /\ Eligible(projectFile, projectFile.deps[exec.j + 1])
    /\ main_venv(projectFile) # ""

Phase(o) == IF o.op = "create" THEN 1 ELSE IF o.op = "launch" THEN 3 ELSE 2

\* C3: the external operations of a run come in the order create, then
\* probe/install, then launch; creations follow the declared order of
\* venv-configs, probes and installs the declared order of dependencies (an
\* install directly after the probe of the same package); the launch happens
\* at most once, after every ordinary environment was created and every
\* dependency dealt with.
PipelineOrdering ==
    LET ops == exec.ops
        n == Len(ops)
        plain == PlainDeclared
        creates == OpIndices(exec, {"create"})
        launches == OpIndices(exec, {"launch"})
    IN  /\ \A k \in 1..n : k < n =>
              /\ Phase(ops[k]) <= Phase(ops[k + 1])
              /\ (Phase(ops[k]) = 2 /\ Phase(ops[k + 1]) = 2) =>
                    \/ DepIndex(ops[k].item) < DepIndex(ops[k + 1].item)
                    \/ /\ ops[k].item = ops[k + 1].item
                       /\ ops[k].op = "probe"
                       /\ ops[k + 1].op = "install"
        /\ \A k \in OpIndices(exec, {"install"}) :
              k > 1 /\ ops[k - 1].op = "probe" /\ ops[k - 1].item = ops[k].item
        /\ Cardinality(creates) <= Len(plain)
        /\ \A k \in creates : k <= Len(plain) /\ ops[k].item = plain[k]
        /\ Cardinality(launches) <= 1
        /\ \A k \in launches :
              /\ k = n
              /\ exec.pc = "done"
              /\ Cardinality(creates) = Len(plain)
              /\ \A c \in creates : ops[c].res = "ok"
              /\ exec.i = Len(projectFile.venvs) + 1
              /\ exec.j = Len(projectFile.deps) + 1
              /\ \A d \in 1..Len(projectFile.deps) :
                    Eligible(projectFile, projectFile.deps[d]) =>
                        \E q \in OpIndices(exec, {"probe"}) :
                            ops[q].item = projectFile.deps[d].package

\* C3 witness: a run that created two environments, dealt with two
\* dependencies, installing at least one, and launched.
PipelineOrderingWitness ==
    /\ exec.pc = "done"
    /\ Cardinality(OpIndices(exec, {"create"})) = 2
    /\ Cardinality(OpIndices(exec, {"probe"})) = 2
    /\ OpIndices(exec, {"install"}) # {}
    /\ OpIndices(exec, {"launch"}) # {}

\* C4 (as claimed): with the tool configuration missing or not JSON, the
\* dispatched command never ends in an unhandled fault.
ToolConfigFailureDegrades == IsNone(uberFile) => exec.pc # "fault"

\* C5 (as claimed): for a loaded project configuration without a main
\* environment, a finished run in which no creation or install failed has
\* reported Error [6] unless ignore.errors is set, and no run launches.
MissingMainReported ==
    (command = "run" /\ ~IsNone(projectFile) /\ main_venv(projectFile) = "") =>
        /\ OpIndices(exec, {"launch"}) = {}
        /\ (exec.pc \in {"done", "fault"} /\ ~Failed(exec)) =>
              (HasMsg(exec, "Error6", "") \/ (~IsNone(uberFile) /\ ignore_errors(uberFile)))

\* Every declared environment was on disk, and every dependency with a
\* declared target installed in it, when the invocation started.
Provisioned(s) ==
    /\ DeclaredVenvs(projectFile) \subseteq s.startEnvs
    /\ \A d \in 1..Len(projectFile.deps) :
          Eligible(projectFile, projectFile.deps[d]) =>
              <<projectFile.deps[d].package, projectFile.deps[d].venv>> \in s.startInstalled

PresentNeverReinstalled ==
    \A k \in OpIndices(exec, {"probe"}) :
        exec.ops[k].res = "ok" =>
            /\ \A m \in OpIndices(exec, {"install"}) : exec.ops[m].item # exec.ops[k].item
            /\ HasMsg(exec, "InfoInstalled", exec.ops[k].item) <=> ~ignore_info(uberFile)
            /\ exec.j > DepIndex(exec.ops[k].item)
            /\ k = Len(exec.ops) =>
                  /\ exec.pc \in {"deps", "launch", "done"}
                  /\ exec.pc = "done" =>
                        /\ exec.j = Len(projectFile.deps) + 1
                        /\ main_venv(projectFile) = ""

\* C7 witness: a probe succeeded, the next dependency was probed after it
\* and the project was launched.
PresentNeverReinstalledWitness ==
    /\ exec.pc = "done"
    /\ \E k \in OpIndices(exec, {"probe"}) :
          /\ exec.ops[k].res = "ok"
          /\ k + 1 \in OpIndices(exec, {"probe"})
    /\ OpIndices(exec, {"launch"}) # {}

\* The venv field of the entry is missing, empty or names no key of
\* venv-configs.
Undeclared(dep) ==
    \/ dep.venv = ""
    \/ \A k \in 1..Len(projectFile.venvs) : projectFile.venvs[k].name # dep.venv

\* C8: a dependency whose venv is missing, empty or undeclared gets no probe,
\* no install and no message, and does not stop the run: a run that ends
\* without a failed creation or install has dealt with every dependency and
\* reached the launch step.
UndeclaredTargetQuiet ==
    /\ \A d \in 1..Len(projectFile.deps) :
          Undeclared(projectFile.deps[d]) =>
              /\ \A k \in 1..Len(exec.ops) : exec.ops[k].item # projectFile.deps[d].package
              /\ \A k \in 1..Len(exec.msgs) : exec.msgs[k].item # projectFile.deps[d].package
    /\ (InPipeline(exec) /\ exec.pc = "done" /\ ~Failed(exec)) =>
          /\ exec.j = Len(projectFile.deps) + 1
          /\ OpIndices(exec, {"launch"}) # {} \/ main_venv(projectFile) = ""

\* C8 witness: a run passed an entry with an undeclared target, probed the
\* entry after it and launched.
UndeclaredTargetQuietWitness ==
    /\ exec.pc = "done"
    /\ Len(projectFile.deps) = 2
    /\ projectFile.deps[1].venv # ""
    /\ Undeclared(projectFile.deps[1])
    /\ \E k \in OpIndices(exec, {"probe"}) : exec.ops[k].item = projectFile.deps[2].package
    /\ OpIndices(exec, {"launch"}) # {}

\* C9: the creation is never invoked for test-venv, whatever the flags, and
\* the entry does not stop the run: a run that ended inside the creation loop
\* ended at an ordinary environment whose creation failed.
ReservedNeverCreated ==
    /\ \A k \in OpIndices(exec, {"create"}) : exec.ops[k].item # ReservedVenv
    /\ (InPipeline(exec) /\ exec.pc = "done" /\ exec.i <= Len(projectFile.venvs)) =>
          /\ projectFile.venvs[exec.i].name # ReservedVenv
          /\ Len(exec.ops) > 0
          /\ exec.ops[Len(exec.ops)] =
                Op("create", projectFile.venvs[exec.i].name, projectFile.venvs[exec.i].name,
                   <<>>, "fail")

\* C9 witness: test-venv is declared first, its info message is suppressed,
\* and the environment declared after it was created.
ReservedNeverCreatedWitness ==
    /\ InPipeline(exec)
    /\ Len(projectFile.venvs) = 2
    /\ projectFile.venvs[1].name = ReservedVenv
    /\ ignore_info(uberFile)
    /\ \E k \in OpIndices(exec, {"create"}) :
          exec.ops[k].item = projectFile.venvs[2].name /\ exec.ops[k].res = "ok"

\* C10 (as claimed): every environment a run probes, installs into or
\* activates was created successfully earlier in that run.
UsedImpliesCreated ==
    \A k \in OpIndices(exec, {"probe", "install", "launch"}) :
        \E c \in OpIndices(exec, {"create"}) :
            c < k /\ exec.ops[c].item = exec.ops[k].venv /\ exec.ops[c].res = "ok"

====
